---- MODULE Spec2Model ----
(***************************************************************************)
(* Relay transport and protocol engine of New_OBD_Project.                 *)
(*                                                                         *)
(* The repository holds several scripts that drive the same 2-channel USB  *)
(* relay.  A run executes exactly one of them; `prog` names it:            *)
(*   "relay_controller_v2"  RelayController over RelayProtocol (serial)    *)
(*   "relay_unified"        RelayDevice (HID reports, retry loop)          *)
(*   "relay_serial_test"    RelayController (serial, retry loop)           *)
(*   "hid_relay"            HIDRelay (HID opcode table)                    *)
(*   "serial_protocol"      the pure codec of RelayProtocol                *)
(*   "relay_simple"         module-level functions (HID opcode table)      *)
(*   "test_relay_v2"        RelayTester (serial, own query)                *)
(*   "mac_relay_serial"     module-level functions (serial, one port per   *)
(*                          call)                                          *)
(* Every public method is one action.  The outcomes of the I/O calls it    *)
(* makes (a write that raises, a status query that is not answered, a      *)
(* relay that does not act) are inputs of the action, drawn with \E.       *)
(* While a call has returned and its caller has not yet taken the result,  *)
(* `call` records it: its arguments, its return value, the trace of the    *)
(* writes, reads and sleeps it made, in order, and the state it started in.*)
(***************************************************************************)
EXTENDS Integers, Sequences, FiniteSets, TLC

VARIABLES prog, device, isOpen, connected, relay_states, dev, inq, lastCmd, call

vars == <<prog, device, isOpen, connected, relay_states, dev, inq, lastCmd, call>>

\* Channel arguments are drawn from 0..MaxChannelArg: 1 and 2 are the valid ones.
MaxChannelArg == 3
\* Input reports the HID device may keep queued for the host.
MaxInq == 2
\* Ports the platform may enumerate.
MaxPorts == 2

ChanArgs == 0..MaxChannelArg
Channels == {1, 2}

START_FLAG == 160
STATE_ON == 1
STATE_OFF == 0
QUERY_CMD == 255
\* relay_unified._send_command and relay_serial_test._send_command
max_retries == 3
retries == 3
\* relay_unified pads every report to this length
REPORT_LEN == 8

(***************************************************************************)
(* Trace events of a call.                                                 *)
(***************************************************************************)
WriteEv(frame, ok) ==
    [k |-> "write", frame |-> frame, ok |-> ok, ms |-> 0, data |-> <<>>, ch |-> 0]
ReadEv(data, ok) ==
    [k |-> "read", frame |-> <<>>, ok |-> ok, ms |-> 0, data |-> data, ch |-> 0]
SleepEv(ms) ==
    [k |-> "sleep", frame |-> <<>>, ok |-> TRUE, ms |-> ms, data |-> <<>>, ch |-> 0]
\* The per-channel method (set_relay, open_relay, close_relay) returned for
\* channel ch, with True (ok) or not.
RetEv(ch, ok) ==
    [k |-> "ret", frame |-> <<>>, ok |-> ok, ms |-> 0, data |-> <<>>, ch |-> ch]

Log(m, ev) == [m EXCEPT !.trace = Append(@, ev)]

\* One run of the locator (find_relay_port, find_device): the ports are
\* listed, and a matching one is found or not.
EnumEv(found) ==
    [k |-> "enum", frame |-> <<>>, ok |-> found, ms |-> 0, data |-> <<>>, ch |-> 0]

\* A signal is delivered to the process (signum "SIGINT" or "SIGTERM"), and
\* the interpreter leaves the handler through sys.exit or the process dies:
\* what follows ExitEv is done by the finally and atexit cleanups.
SignalEv(signum) ==
    [k |-> "signal", frame |-> <<>>, ok |-> TRUE, ms |-> 0, data |-> <<signum>>, ch |-> 0]
ExitEv ==
    [k |-> "exit", frame |-> <<>>, ok |-> TRUE, ms |-> 0, data |-> <<>>, ch |-> 0]

\* list_ports.comports() gave the enumeration ports.
ComportsEv(ports) ==
    [k |-> "comports", frame |-> <<>>, ok |-> TRUE, ms |-> 0, data |-> ports, ch |-> 0]

\* A result [m, ret] of a per-channel method, its return logged.
Returned(r, ch) == [m |-> Log(r.m, RetEv(ch, r.ret = "True")), ret |-> r.ret]

RECURSIVE SumSeq(_)
SumSeq(s) == IF s = <<>> THEN 0 ELSE Head(s) + SumSeq(Tail(s))

\* `pat in line` of Python, on sequences of characters.
Contains(line, pat) ==
    \E i \in 1..(Len(line) - Len(pat) + 1) : SubSeq(line, i, i + Len(pat) - 1) = pat

(***************************************************************************)
(* serial_protocol.RelayProtocol: the codec.                               *)
(***************************************************************************)
\* A checksum that leaves the start flag out of the sum.
checksum_without_flag(data) == SumSeq(Tail(data)) % 256

calculate_checksum(data) == SumSeq(data) % 256

\* [raised, frame]: ValueError for a relay number outside [1, 2].
build_command(relay_num, state) ==
    IF relay_num \notin {1, 2}
    THEN [raised |-> TRUE, frame |-> <<>>]
    ELSE LET cmd == <<START_FLAG, relay_num, IF state THEN 1 ELSE 0>>
         IN [raised |-> FALSE, frame |-> Append(cmd, calculate_checksum(cmd))]

CH1ON == <<"C", "H", "1", ":", "O", "N">>
CH2ON == <<"C", "H", "2", ":", "O", "N">>

parse_status(response) == <<Contains(response, CH1ON), Contains(response, CH2ON)>>

(***************************************************************************)
(* The locators.  A port of the enumeration is [ch340, vidpid, vendor,     *)
(* usb]: the text CH340 is in its name, description or hardware ID; the    *)
(* hardware ID holds 1a86:7523; it holds 16c0 or 1a86; the description     *)
(* mentions USB.  A port is named by its position, 0 standing for None.    *)
(***************************************************************************)
PortKinds ==
    {p \in [ch340 : BOOLEAN, vidpid : BOOLEAN, vendor : BOOLEAN, usb : BOOLEAN] :
        p.vidpid => p.vendor}

PortLists == UNION {[1..n -> PortKinds] : n \in 0..MaxPorts}

\* The first port of the enumeration that is in the set of positions S.
FirstOf(S) == IF S = {} THEN 0 ELSE CHOOSE i \in S : \A j \in S : i <= j

\* serial_protocol.RelayProtocol.find_relay_port
find_relay_port(ports) ==
    IF {i \in 1..Len(ports) : ports[i].ch340} # {}
    THEN FirstOf({i \in 1..Len(ports) : ports[i].ch340})
    ELSE FirstOf({i \in 1..Len(ports) : ports[i].usb})

\* mac_relay_serial.find_ch340_device
find_ch340_device(ports) == FirstOf({i \in 1..Len(ports) : ports[i].vidpid})

\* relay_serial_test.RelayController.find_device
find_device(ports) == FirstOf({i \in 1..Len(ports) : ports[i].vendor})

(***************************************************************************)
(* The relay board behind the serial bridge (wire format of spec section   *)
(* 6): it acts on a complete, well-formed 4-byte frame and answers the     *)
(* query byte with an ASCII line of per-channel markers.                   *)
(***************************************************************************)
OnOff(b) == IF b THEN <<"O", "N">> ELSE <<"O", "F", "F">>

StatusLine(d) ==
    <<"C", "H", "1", ":">> \o OnOff(d[1]) \o <<" ">> \o
    <<"C", "H", "2", ":">> \o OnOff(d[2]) \o <<"\n">>

WellFormed(frame) ==
    /\ Len(frame) = 4
    /\ frame[1] = START_FLAG
    /\ frame[2] \in Channels
    /\ frame[3] \in {STATE_OFF, STATE_ON}
    /\ frame[4] = (frame[1] + frame[2] + frame[3]) % 256

\* A delivered frame: the board records the command; the relay follows it
\* unless it is stuck (acts = FALSE).
SerialDeliver(m, frame, acts) ==
    IF ~WellFormed(frame) THEN m
    ELSE [m EXCEPT !.lastCmd[frame[2]] = IF frame[3] = STATE_ON THEN "on" ELSE "off",
                   !.dev[frame[2]] = IF acts THEN frame[3] = STATE_ON ELSE @]

(***************************************************************************)
(* serial_protocol.RelayProtocol: the transport methods.  A result is      *)
(* [m, ret] with ret "True", "False" or "raise".                           *)
(***************************************************************************)
WriteOutcomes == {"ok", "short", "raise"}
QueryOutcomes == {"answered", "silent", "raise"}

send_command(m, cmd, w, acts) ==
    IF m.device = "None" \/ ~m.isOpen
    THEN [m |-> m, ret |-> "raise"]
    ELSE CASE w = "raise" -> [m |-> Log(m, WriteEv(cmd, FALSE)), ret |-> "raise"]
           [] w = "short" -> [m |-> Log(m, WriteEv(cmd, FALSE)), ret |-> "False"]
           [] OTHER -> [m |-> SerialDeliver(Log(m, WriteEv(cmd, TRUE)), cmd, acts),
                        ret |-> "True"]

protocol_set_relay(m, relay_num, state, w, acts) ==
    LET b == build_command(relay_num, state)
    IN IF b.raised THEN [m |-> m, ret |-> "raise"]
       ELSE send_command(m, b.frame, w, acts)

\* read_response and parse_status, after the query byte went out (s is what
\* send_command gave): [m, ret, states], ret "ok" or "raise" (no response
\* within the read timeout).
read_status(s, q) ==
    IF s.ret = "raise" THEN [m |-> s.m, ret |-> "raise", states |-> <<FALSE, FALSE>>]
    ELSE IF q = "answered"
         THEN [m |-> Log(s.m, ReadEv(StatusLine(s.m.dev), TRUE)),
               ret |-> "ok", states |-> parse_status(StatusLine(s.m.dev))]
         ELSE [m |-> Log(s.m, ReadEv(<<>>, FALSE)),
               ret |-> "raise", states |-> <<FALSE, FALSE>>]

query_status(m, q) ==
    read_status(send_command(m, <<QUERY_CMD>>, IF q = "raise" THEN "raise" ELSE "ok", TRUE),
                q)

protocol_close(m) == IF m.isOpen THEN [m EXCEPT !.isOpen = FALSE] ELSE m

(***************************************************************************)
(* relay_controller_v2.RelayController                                     *)
(***************************************************************************)
\* A get_relay_states whose failed query also forgets the cache.
cache_states_reset(r) ==
    IF r.ret = "ok"
    THEN [m |-> [r.m EXCEPT !.relay_states = r.states], states |-> r.states]
    ELSE [m |-> [r.m EXCEPT !.relay_states = <<FALSE, FALSE>>],
          states |-> <<FALSE, FALSE>>]

\* The try block of get_relay_states, r being what query_status gave: the
\* cache is replaced by the answer, or kept when the query raised.
cache_states(r) ==
    IF r.ret = "ok"
    THEN [m |-> [r.m EXCEPT !.relay_states = r.states], states |-> r.states]
    ELSE [m |-> r.m, states |-> r.m.relay_states]

\* [m, states]
get_relay_states(m, q) ==
    IF ~m.connected THEN [m |-> m, states |-> m.relay_states]
    ELSE cache_states(query_status(m, q))

\* "Verify state": g is what the second get_relay_states gave.
verify_state(g, relay_num, state) ==
    [m |-> g.m, ret |-> IF g.states[relay_num] = state THEN "True" ELSE "False"]

\* The branch on protocol.set_relay's result s: on a sent command the cache
\* is updated, then the state is read back and compared.
after_send(s, relay_num, state, q2) ==
    IF s.ret = "True"
    THEN verify_state(get_relay_states(Log([s.m EXCEPT !.relay_states[relay_num] = state],
                                           SleepEv(100)),
                                       q2),
                      relay_num, state)
    ELSE [m |-> s.m, ret |-> "False"]

\* A set_relay that treats a relay already in the requested state as a failure.
set_relay_changed_only(m, relay_num, state, e) ==
    IF ~m.connected THEN [m |-> m, ret |-> "False"]
    ELSE IF relay_num \notin {1, 2} THEN [m |-> m, ret |-> "False"]
    ELSE IF m.relay_states[relay_num] = state THEN [m |-> m, ret |-> "False"]
    ELSE after_send(protocol_set_relay(get_relay_states(m, e.q1).m, relay_num, state,
                                       e.w, e.acts),
                    relay_num, state, e.q2)

\* A set_relay that reads the states before it looks at the relay number.
set_relay_query_first(m, relay_num, state, e) ==
    IF ~m.connected THEN [m |-> m, ret |-> "False"]
    ELSE IF relay_num \notin {1, 2}
         THEN [m |-> get_relay_states(m, e.q1).m, ret |-> "False"]
    ELSE after_send(protocol_set_relay(get_relay_states(m, e.q1).m, relay_num, state,
                                       e.w, e.acts),
                    relay_num, state, e.q2)

\* e = [q1, w, acts, q2]
set_relay_body(m, relay_num, state, e) ==
    IF ~m.connected THEN [m |-> m, ret |-> "False"]
    ELSE IF relay_num \notin {1, 2} THEN [m |-> m, ret |-> "False"]
    ELSE after_send(protocol_set_relay(get_relay_states(m, e.q1).m, relay_num, state,
                                       e.w, e.acts),
                    relay_num, state, e.q2)

set_relay(m, relay_num, state, e) == Returned(set_relay_body(m, relay_num, state, e), relay_num)

\* A last pass that switches relay 1 back off when relay 2 failed.
verify_all_rollback(r2) ==
    IF r2.ret # "True"
    THEN [m |-> set_relay(r2.m, 1, FALSE,
                          [q1 |-> "answered", w |-> "ok", acts |-> TRUE, q2 |-> "answered"]).m,
          ret |-> "False"]
    ELSE [m |-> Log(r2.m, SleepEv(100)), ret |-> "True"]

\* The last pass of the loop of set_all_relays, r2 being what set_relay(2) gave.
verify_all(r2) ==
    IF r2.ret # "True" THEN [m |-> r2.m, ret |-> "False"]
    ELSE [m |-> Log(r2.m, SleepEv(100)), ret |-> "True"]

\* A loop without the break: relay 2 is commanded whatever relay 1 gave.
set_all_without_break(r1, state, e2) ==
    verify_all(set_relay(Log(r1.m, SleepEv(100)), 2, state, e2))

\* The loop of set_all_relays from relay 2 on, r1 being what set_relay(1) gave.
set_all_second(r1, state, e2) ==
    IF r1.ret # "True" THEN [m |-> r1.m, ret |-> "False"]
    ELSE verify_all(set_relay(Log(r1.m, SleepEv(100)), 2, state, e2))

\* es = <<e1, e2>>
set_all_relays(m, state, es) ==
    IF ~m.connected THEN [m |-> m, ret |-> "False"]
    ELSE set_all_second(set_relay(m, 1, state, es[1]), state, es[2])

\* The end of cleanup, r2 being what set_relay(2, False) gave.
cleanup_close(r2) ==
    [m |-> IF r2.m.device # "None"
           THEN protocol_close(Log(r2.m, SleepEv(100)))
           ELSE Log(r2.m, SleepEv(100)),
     ret |-> "None"]

\* A cleanup without the `if self.connected` guard.
cleanup_unguarded(m, es) ==
    cleanup_close(set_relay(Log(set_relay(m, 1, FALSE, es[1]).m, SleepEv(100)),
                            2, FALSE, es[2]))

cleanup(m, es) ==
    IF m.connected
    THEN cleanup_close(set_relay(Log(set_relay(m, 1, FALSE, es[1]).m, SleepEv(100)),
                                 2, FALSE, es[2]))
    ELSE [m |-> m, ret |-> "None"]

\* The end of connect, r being what the first query_status gave.
connect_seed(r) ==
    IF r.ret = "ok"
    THEN [m |-> [r.m EXCEPT !.relay_states = r.states, !.connected = TRUE], ret |-> "True"]
    ELSE [m |-> r.m, ret |-> "False"]

\* e = [found, opens, q]: no port found, or serial.Serial raises, or the
\* new RelayProtocol replaces the old one and is queried.
connect(m, e) ==
    IF ~e.found \/ ~e.opens THEN [m |-> Log(m, EnumEv(e.found)), ret |-> "False"]
    ELSE connect_seed(query_status(Log([m EXCEPT !.device = "obj", !.isOpen = TRUE],
                                       EnumEv(TRUE)),
                                   e.q))

(***************************************************************************)
(* The relay board as an HID device (wire format of spec section 6).  In   *)
(* the profile relay_unified speaks, byte 1 is 0xFF (on) or 0xFD (off) and *)
(* byte 2 names the channel, 0 meaning every channel; opcode 0x00 asks for *)
(* the status.  In the profile hid_relay speaks, byte 1 is one opcode of   *)
(* the table.  A board that answers a report queues one input report whose *)
(* first byte is the channel bitmask; a full queue drops it.               *)
(***************************************************************************)
StatusByte(d) == (IF d[1] THEN 1 ELSE 0) + (IF d[2] THEN 2 ELSE 0)

Enqueue(m, ans) ==
    IF ans /\ Len(m.inq) < MaxInq
    THEN [m EXCEPT !.inq = Append(@, StatusByte(m.dev))]
    ELSE m

SetChannels(m, cs, on) ==
    [m EXCEPT !.dev = [c \in 1..2 |-> IF c \in cs THEN on ELSE m.dev[c]],
              !.lastCmd = [c \in 1..2 |-> IF c \in cs
                                          THEN (IF on THEN "on" ELSE "off")
                                          ELSE m.lastCmd[c]]]

Targets(b) == IF b = 0 THEN Channels ELSE {b} \cap Channels

UnifiedDeliver(m, frame, ans) ==
    LET m1 == IF Len(frame) >= 3 /\ frame[2] \in {255, 253}
              THEN SetChannels(m, Targets(frame[3]), frame[2] = 255)
              ELSE m
    IN Enqueue(m1, ans)

TableDeliver(m, frame, ans) ==
    LET op == IF Len(frame) >= 2 THEN frame[2] ELSE 256
        m1 == CASE op = 254 -> SetChannels(m, {1}, TRUE)
                [] op = 1 -> SetChannels(m, {1}, FALSE)
                [] op = 253 -> SetChannels(m, {2}, TRUE)
                [] op = 2 -> SetChannels(m, {2}, FALSE)
                [] op = 255 -> SetChannels(m, Channels, TRUE)
                [] op = 0 -> SetChannels(m, Channels, FALSE)
                [] OTHER -> m
    IN Enqueue(m1, ans)

\* device.read(n, timeout_ms): the oldest queued report, or the empty list.
Report(b) == <<b>> \o [i \in 1..(REPORT_LEN - 1) |-> 0]

HidRead(m) ==
    IF m.inq = <<>>
    THEN [m |-> Log(m, ReadEv(<<>>, TRUE)), data |-> <<>>]
    ELSE [m |-> Log([m EXCEPT !.inq = Tail(@)], ReadEv(Report(Head(m.inq)), TRUE)),
          data |-> Report(Head(m.inq))]

(***************************************************************************)
(* relay_unified.RelayCommands and RelayDevice                             *)
(***************************************************************************)
HID_COMMANDS(command_type, channel) ==
    CASE command_type = "OPEN_ONE" -> <<0, 255, channel>>
      [] command_type = "CLOSE_ONE" -> <<0, 253, channel>>
      [] command_type = "OPEN_ALL" -> <<0, 255, 0>>
      [] command_type = "CLOSE_ALL" -> <<0, 253, 0>>
      [] command_type = "GET_STATUS" -> <<0, 0, 0>>

Pad(cmd) == cmd \o [i \in 1..(REPORT_LEN - Len(cmd)) |-> 0]

\* The retry loop.  outs[attempt + 1] is what the attempt meets: "ok", "wraise"
\* (write raises) or "rraise" (written, then read raises); a handle that is
\* not open raises on every write.
UnifiedOutcome(m, outs, attempt) ==
    IF ~m.isOpen THEN "wraise"
    ELSE IF attempt + 1 > Len(outs) THEN "ok" ELSE outs[attempt + 1]

UnifiedWritten(m, full_cmd, ans) ==
    UnifiedDeliver(Log(m, WriteEv(full_cmd, TRUE)), full_cmd, ans)

UnifiedFailed(m, full_cmd, o, ans) ==
    IF o = "wraise" THEN Log(m, WriteEv(full_cmd, FALSE))
    ELSE Log(UnifiedWritten(m, full_cmd, ans), ReadEv(<<>>, FALSE))

\* before[attempt]: the machine when the attempt starts, every earlier one
\* having raised and slept; last: the attempt the loop ends in.
UnifiedRetry(m, full_cmd, outs, ans) ==
    LET before[attempt \in 0..(max_retries - 1)] ==
            IF attempt = 0 THEN m
            ELSE Log(UnifiedFailed(before[attempt - 1], full_cmd,
                                   UnifiedOutcome(m, outs, attempt - 1), ans),
                     SleepEv(100))
        Succeeds == {a \in 0..(max_retries - 1) : UnifiedOutcome(m, outs, a) = "ok"}
        last == IF Succeeds = {} THEN max_retries - 1
                ELSE CHOOSE a \in Succeeds : \A b \in Succeeds : a <= b
    IN IF last \in Succeeds
       THEN [m |-> HidRead(UnifiedWritten(before[last], full_cmd, ans)).m, ret |-> "True"]
       ELSE [m |-> [UnifiedFailed(before[last], full_cmd,
                                  UnifiedOutcome(m, outs, last), ans)
                    EXCEPT !.connected = FALSE],
             ret |-> "False"]

\* e = [outs, ans]
unified_send_command(m, command_type, channel, e) ==
    IF m.device = "None" \/ ~m.connected THEN [m |-> m, ret |-> "False"]
    ELSE UnifiedRetry(m, Pad(HID_COMMANDS(command_type, channel)), e.outs, e.ans)

open_channel(m, channel, e) == unified_send_command(m, "OPEN_ONE", channel, e)
close_channel(m, channel, e) == unified_send_command(m, "CLOSE_ONE", channel, e)
open_all_channels(m, e) == unified_send_command(m, "OPEN_ALL", 1, e)
close_all_channels(m, e) == unified_send_command(m, "CLOSE_ALL", 1, e)

Bit(status, i) == (status \div (2 ^ i)) % 2 = 1

\* `status = response[0]` and the dict, rd being what device.read gave: the
\* empty list has no element 0, and the except branch disconnects.
decode_status(rd) ==
    IF rd.data = <<>>
    THEN [m |-> [rd.m EXCEPT !.connected = FALSE], ret |-> "None", out |-> <<>>]
    ELSE [m |-> rd.m, ret |-> "dict", out |-> [i \in 1..2 |-> Bit(rd.data[1], i - 1)]]

\* The read of get_status, s being what _send_command('GET_STATUS') gave
\* (its result is not looked at); r is what the read meets ("ok", "raise").
status_read(s, r) ==
    IF r = "raise"
    THEN [m |-> [Log(s.m, ReadEv(<<>>, FALSE)) EXCEPT !.connected = FALSE],
          ret |-> "None", out |-> <<>>]
    ELSE decode_status(HidRead(s.m))

\* [m, ret, out]: e as above
unified_get_status(m, e, r) ==
    IF m.device = "None" \/ ~m.connected
    THEN [m |-> m, ret |-> "None", out |-> <<>>]
    ELSE status_read(unified_send_command(m, "GET_STATUS", 1, e), r)

unified_close(m) ==
    LET m1 == IF m.device # "None" /\ m.connected
              THEN [m EXCEPT !.isOpen = FALSE, !.connected = FALSE]
              ELSE m
    IN [m1 EXCEPT !.device = "None"]

\* o: "ok", "notfound" (device.open raises), "strfail" (opened, then
\* get_manufacturer_string raises).  An open handle cannot be opened again.
unified_open(m, o) ==
    IF m.device = "None" THEN [m |-> m, ret |-> "False"]
    ELSE IF m.isOpen \/ o = "notfound" THEN [m |-> m, ret |-> "False"]
    ELSE IF o = "strfail" THEN [m |-> [m EXCEPT !.isOpen = TRUE], ret |-> "False"]
    ELSE [m |-> [m EXCEPT !.isOpen = TRUE, !.connected = TRUE], ret |-> "True"]

unified_cleanup(m, e) ==
    IF m.connected
    THEN [m |-> unified_close(Log(close_all_channels(m, e).m, SleepEv(100))),
          ret |-> "None"]
    ELSE [m |-> m, ret |-> "None"]

\* The retry loop of _send_command cut by a signal: k attempts have raised on
\* their write and slept, and (mid) the write of the next one has gone out,
\* its read not yet made.  SystemExit is no Exception: neither except branch
\* of _send_command catches it, and the loop does nothing more.
unified_interrupted(m, full_cmd, k, mid) ==
    LET before[attempt \in 0..k] ==
            IF attempt = 0 THEN m
            ELSE Log(UnifiedFailed(before[attempt - 1], full_cmd, "wraise", TRUE),
                     SleepEv(100))
    IN IF mid THEN UnifiedWritten(before[k], full_cmd, TRUE) ELSE before[k]

\* _signal_handler, registered for SIGINT and SIGTERM: cleanup, then sys.exit.
unified_signal_handler(m, signum, e) ==
    Log(unified_cleanup(Log(m, SignalEv(signum)), e).m, ExitEv)

\* The way out of the process: the finally of main, then the atexit hook.
unified_exit(m, e) ==
    [m |-> unified_cleanup(unified_cleanup(m, e).m, e).m, ret |-> "exit"]

(***************************************************************************)
(* relay_serial_test.RelayController                                       *)
(***************************************************************************)
\* c = [found, opens]
serial_connect(m, c) ==
    IF m.connected THEN [m |-> m, ret |-> "True"]
    ELSE IF ~c.found THEN [m |-> Log(m, EnumEv(FALSE)), ret |-> "False"]
    ELSE IF ~c.opens
         THEN [m |-> [Log(m, EnumEv(TRUE)) EXCEPT !.connected = FALSE], ret |-> "False"]
    ELSE [m |-> [Log(m, EnumEv(TRUE)) EXCEPT !.device = "obj", !.isOpen = TRUE,
                                       !.connected = TRUE],
          ret |-> "True"]

\* The retry loop.  outs[attempt + 1] is what the write of the attempt meets:
\* "ok" or "raise"; a closed port raises on every write.
SerialOutcome(m, outs, attempt) ==
    IF m.device = "None" \/ ~m.isOpen THEN "raise"
    ELSE IF attempt + 1 > Len(outs) THEN "ok" ELSE outs[attempt + 1]

\* A loop that gives up at the first write that raises.
SerialLoopNoRetry(m, command, n, outs, acts) ==
    IF n = 0 THEN [m |-> m, ret |-> "None"]
    ELSE IF SerialOutcome(m, outs, 0) = "ok"
         THEN [m |-> Log(SerialDeliver(Log(m, WriteEv(command, TRUE)), command, acts),
                         SleepEv(100)),
               ret |-> "True"]
         ELSE [m |-> [Log(m, WriteEv(command, FALSE)) EXCEPT !.connected = FALSE],
               ret |-> "False"]

\* The loop `for attempt in range(retries)` for a retries argument n: with
\* n = 0 the body never runs and the method falls off its end (None).
SerialLoop(m, command, n, outs, acts) ==
    IF n = 0 THEN [m |-> m, ret |-> "None"]
    ELSE LET before[attempt \in 0..(n - 1)] ==
                 IF attempt = 0 THEN m
                 ELSE Log(Log(before[attempt - 1], WriteEv(command, FALSE)), SleepEv(500))
             Succeeds == {a \in 0..(n - 1) : SerialOutcome(m, outs, a) = "ok"}
             last == IF Succeeds = {} THEN n - 1
                     ELSE CHOOSE a \in Succeeds : \A b \in Succeeds : a <= b
         IN IF last \in Succeeds
            THEN [m |-> Log(SerialDeliver(Log(before[last], WriteEv(command, TRUE)),
                                          command, acts),
                            SleepEv(100)),
                  ret |-> "True"]
            ELSE [m |-> [Log(before[last], WriteEv(command, FALSE))
                         EXCEPT !.connected = FALSE],
                  ret |-> "False"]

\* The loop with the default retries=3.
SerialRetry(m, command, outs, acts) == SerialLoop(m, command, retries, outs, acts)

\* A _send_command that calls connect() and goes on whatever it returned.
serial_send_unchecked(c, command, e) == SerialRetry(c.m, command, e.outs, e.acts)

\* e = [c, outs, acts]
\* `if not self.connected and not self.connect(): return False`, c being
\* what connect gives when it is called.
serial_send_connected(c, command, e) ==
    IF c.ret # "True" THEN [m |-> c.m, ret |-> "False"]
    ELSE SerialRetry(c.m, command, e.outs, e.acts)

serial_send_command(m, command, e) ==
    serial_send_connected(IF m.connected THEN [m |-> m, ret |-> "True"]
                          ELSE serial_connect(m, e.c),
                          command, e)

\* _send_command(command, retries=n): e = [c, outs, acts]
serial_send_retries(c, command, n, e) ==
    IF c.ret # "True" THEN [m |-> c.m, ret |-> "False"]
    ELSE SerialLoop(c.m, command, n, e.outs, e.acts)

serial_send_command_retries(m, command, n, e) ==
    serial_send_retries(IF m.connected THEN [m |-> m, ret |-> "True"]
                        ELSE serial_connect(m, e.c),
                        command, n, e)

open_relay_body(m, relay_num, e) ==
    IF relay_num \notin {1, 2} THEN [m |-> m, ret |-> "False"]
    ELSE serial_send_command(m, IF relay_num = 1 THEN <<160, 1, 1, 162>>
                                ELSE <<160, 2, 1, 163>>, e)

open_relay(m, relay_num, e) == Returned(open_relay_body(m, relay_num, e), relay_num)

close_relay_body(m, relay_num, e) ==
    IF relay_num \notin {1, 2} THEN [m |-> m, ret |-> "False"]
    ELSE serial_send_command(m, IF relay_num = 1 THEN <<160, 1, 0, 161>>
                                ELSE <<160, 2, 0, 162>>, e)

close_relay(m, relay_num, e) == Returned(close_relay_body(m, relay_num, e), relay_num)

\* es = <<e1, e2>>: `open_relay(1) and open_relay(2)`
open_second(r1, e2) == IF r1.ret # "True" THEN r1 ELSE open_relay(r1.m, 2, e2)

open_all_relays(m, es) == open_second(open_relay(m, 1, es[1]), es[2])

\* `close_relay(1) and close_relay(2)`
close_second(r1, e2) == IF r1.ret # "True" THEN r1 ELSE close_relay(r1.m, 2, e2)

close_all_relays(m, es) == close_second(close_relay(m, 1, es[1]), es[2])

\* ord() of the characters of a status line.
Ascii(c) ==
    CASE c = "C" -> 67 [] c = "H" -> 72 [] c = "1" -> 49 [] c = "2" -> 50
      [] c = ":" -> 58 [] c = "O" -> 79 [] c = "N" -> 78 [] c = "F" -> 70
      [] c = " " -> 32 [] c = "\n" -> 10

\* get_status once connected, c being what the auto-connect gave: the query
\* byte is written and, when bytes are waiting, the first of them is decoded
\* as a bitmask.  e = [c, w, q]; [m, ret, out]
serial_status_connected(c, e) ==
    IF c.ret # "True" THEN [m |-> c.m, ret |-> "None", out |-> <<>>]
    ELSE IF c.m.device = "None" \/ ~c.m.isOpen \/ e.w = "raise"
         THEN [m |-> [Log(c.m, WriteEv(<<255>>, FALSE)) EXCEPT !.connected = FALSE],
               ret |-> "None", out |-> <<>>]
    ELSE IF e.q = "answered"
         THEN [m |-> Log(Log(Log(c.m, WriteEv(<<255>>, TRUE)), SleepEv(100)),
                         ReadEv(StatusLine(c.m.dev), TRUE)),
               ret |-> "dict",
               out |-> [i \in 1..2 |-> Bit(Ascii(StatusLine(c.m.dev)[1]), i - 1)]]
    ELSE [m |-> Log(Log(c.m, WriteEv(<<255>>, TRUE)), SleepEv(100)),
          ret |-> "None", out |-> <<>>]

serial_get_status(m, e) ==
    serial_status_connected(IF m.connected THEN [m |-> m, ret |-> "True"]
                            ELSE serial_connect(m, e.c),
                            e)

\* The end of cleanup, r being what close_all_relays gave.
serial_close(r) ==
    [m |-> IF r.m.device # "None"
           THEN [Log(r.m, SleepEv(100)) EXCEPT !.isOpen = FALSE]
           ELSE Log(r.m, SleepEv(100)),
     ret |-> "None"]

serial_cleanup(m, es) ==
    IF m.connected THEN serial_close(close_all_relays(m, es))
    ELSE [m |-> m, ret |-> "None"]

\* The retry loop of _send_command cut by a signal: k writes have raised and
\* slept, and (mid) the next write has gone out and the loop sleeps.
serial_interrupted(m, command, k, mid) ==
    LET before[attempt \in 0..k] ==
            IF attempt = 0 THEN m
            ELSE Log(Log(before[attempt - 1], WriteEv(command, FALSE)), SleepEv(500))
    IN IF mid THEN SerialDeliver(Log(before[k], WriteEv(command, TRUE)), command, TRUE)
       ELSE before[k]

\* _signal_handler is registered for SIGINT only: SIGTERM keeps its default
\* disposition and ends the process at once.
serial_signal_handler(m, signum, es) ==
    IF signum = "SIGINT"
    THEN Log(serial_cleanup(Log(m, SignalEv(signum)), es).m, ExitEv)
    ELSE Log(Log(m, SignalEv(signum)), ExitEv)

\* The way out of the process: after sys.exit, the finally of main.
serial_exit(m, signum, es) ==
    IF signum = "SIGINT"
    THEN [m |-> serial_cleanup(m, es).m, ret |-> "exit"]
    ELSE [m |-> m, ret |-> "exit"]

(***************************************************************************)
(* test_relay_v2.RelayTester                                               *)
(***************************************************************************)
\* The try block of get_relay_states: the query byte is written and, when
\* bytes are waiting after the sleep, a line is read and parsed into the
\* cache.  e = [w, q]; [m, states]
tester_query(m, e) ==
    IF ~m.isOpen \/ e.w = "raise"
    THEN [m |-> Log(m, WriteEv(<<QUERY_CMD>>, FALSE)), states |-> m.relay_states]
    ELSE IF e.q = "answered"
         THEN [m |-> [Log(Log(Log(m, WriteEv(<<QUERY_CMD>>, TRUE)), SleepEv(100)),
                          ReadEv(StatusLine(m.dev), TRUE))
                      EXCEPT !.relay_states = parse_status(StatusLine(m.dev))],
               states |-> parse_status(StatusLine(m.dev))]
         ELSE [m |-> Log(Log(m, WriteEv(<<QUERY_CMD>>, TRUE)), SleepEv(100)),
               states |-> m.relay_states]

tester_get_relay_states(m, e) ==
    IF ~m.connected THEN [m |-> m, states |-> m.relay_states]
    ELSE tester_query(m, e)

\* `if self.get_relay_states():` g being what it gave: a list is true when
\* it is not empty.
tester_connect_test(g) ==
    IF Len(g.states) > 0
    THEN [m |-> [g.m EXCEPT !.connected = TRUE], ret |-> "True"]
    ELSE [m |-> g.m, ret |-> "False"]

\* e = [opens, w, q]: serial.Serial raises, or the port is open and the
\* connection is tested.
tester_connect(m, e) ==
    IF ~e.opens THEN [m |-> m, ret |-> "False"]
    ELSE tester_connect_test(tester_get_relay_states(
                                 [m EXCEPT !.device = "obj", !.isOpen = TRUE], e))

(***************************************************************************)
(* hid_relay.HIDRelay                                                      *)
(***************************************************************************)
\* o: "ok" or "raise" (device.open raises: the new hid.device() is kept, unopened)
hid_connect(m, o) ==
    IF m.isOpen \/ o = "raise"
    THEN [m |-> [m EXCEPT !.device = "obj"], ret |-> "False"]
    ELSE [m |-> [m EXCEPT !.device = "obj", !.isOpen = TRUE], ret |-> "True"]

\* e = [w, ans]: w is "ok" or "raise"
hid_send_command(m, data, e) ==
    IF m.device = "None" THEN [m |-> m, ret |-> "raise"]
    ELSE LET frame == <<0>> \o data
         IN IF ~m.isOpen \/ e.w = "raise"
            THEN [m |-> Log(m, WriteEv(frame, FALSE)), ret |-> "False"]
            ELSE [m |-> HidRead(Log(TableDeliver(Log(m, WriteEv(frame, TRUE)), frame, e.ans),
                                    SleepEv(50))).m,
                  ret |-> "True"]

\* A set_relay whose opcodes for relay 2 follow the pattern of relay 1
\* shifted by one (0xFD on, 0x02 off) the wrong way round.
hid_set_relay_swapped(m, relay_num, state, e) ==
    IF relay_num \notin {1, 2} THEN [m |-> m, ret |-> "raise"]
    ELSE LET cmd == IF relay_num = 1
                    THEN (IF state THEN 254 ELSE 1)
                    ELSE (IF state THEN 2 ELSE 253)
         IN hid_send_command(m, <<cmd>>, e)

hid_set_relay(m, relay_num, state, e) ==
    IF relay_num \notin {1, 2} THEN [m |-> m, ret |-> "raise"]
    ELSE LET cmd == IF relay_num = 1
                    THEN (IF state THEN 254 ELSE 1)
                    ELSE (IF state THEN 253 ELSE 2)
         IN hid_send_command(m, <<cmd>>, e)

hid_set_all_relays(m, state, e) ==
    hid_send_command(m, <<IF state THEN 255 ELSE 0>>, e)

hid_close(m, e) ==
    IF m.device # "None"
    THEN [m |-> [hid_set_all_relays(m, FALSE, e).m EXCEPT !.isOpen = FALSE], ret |-> "None"]
    ELSE [m |-> m, ret |-> "None"]

(***************************************************************************)
(* relay_simple: module-level functions on a device handle the caller      *)
(* holds (device, isOpen) or on one they open themselves.                  *)
(***************************************************************************)
COMMANDS(key) ==
    CASE key = "relay1_on" -> <<0, 254>>
      [] key = "relay1_off" -> <<0, 1>>
      [] key = "relay2_on" -> <<0, 253>>
      [] key = "relay2_off" -> <<0, 2>>
      [] key = "all_on" -> <<0, 255>>
      [] key = "all_off" -> <<0, 0>>

CommandKeys == {"relay1_on", "relay1_off", "relay2_on", "relay2_off", "all_on", "all_off"}

\* f"relay{relay_num}_{'on' if state else 'off'}"
cmd_key(relay_num, state) ==
    <<relay_num, IF state THEN "on" ELSE "off">>

\* The key as a name of CommandKeys, "" when COMMANDS has no such key.
KeyName(k) ==
    CASE k = <<1, "on">> -> "relay1_on"
      [] k = <<1, "off">> -> "relay1_off"
      [] k = <<2, "on">> -> "relay2_on"
      [] k = <<2, "off">> -> "relay2_off"
      [] OTHER -> ""

\* o: "ok" or "raise" (device.open raises)
find_relay(m, o) ==
    IF o = "raise" THEN [m |-> [m EXCEPT !.device = "None", !.isOpen = FALSE], ret |-> "None"]
    ELSE [m |-> [m EXCEPT !.device = "obj", !.isOpen = TRUE], ret |-> "obj"]

\* device.write(command) on an open handle, w being what it meets.
simple_write(m, command, w) ==
    IF w = "raise" THEN [m |-> Log(m, WriteEv(command, FALSE)), ret |-> "False"]
    ELSE [m |-> TableDeliver(Log(m, WriteEv(command, TRUE)), command, FALSE), ret |-> "True"]

\* `finally: device.close()` on the handle the caller passed.
simple_close(r) == [m |-> [r.m EXCEPT !.isOpen = FALSE], ret |-> r.ret]

\* passed: the caller passes the handle it holds; e = [o, w].  Without a
\* handle send_command opens one of its own and closes it again.
simple_send_command(m, command, passed, e) ==
    IF ~passed \/ m.device = "None"
    THEN IF e.o = "raise" THEN [m |-> m, ret |-> "False"]
         ELSE simple_write(m, command, e.w)
    ELSE simple_close(simple_write(m, command, IF m.isOpen THEN e.w ELSE "raise"))

control_relay(m, relay_num, state, passed, e) ==
    IF KeyName(cmd_key(relay_num, state)) \in CommandKeys
    THEN simple_send_command(m, COMMANDS(KeyName(cmd_key(relay_num, state))), passed, e)
    ELSE [m |-> m, ret |-> "False"]

\* interactive_mode, commands '1' and '2': the relay is switched on and,
\* a second later, off, on the handle interactive_mode holds.  es = <<e1, e2>>
simple_toggle_off(r1, relay_num, e2) ==
    [m |-> control_relay(Log(r1.m, SleepEv(1000)), relay_num, FALSE, TRUE, e2).m,
     ret |-> "None"]

simple_toggle(m, relay_num, es) ==
    simple_toggle_off(control_relay(m, relay_num, TRUE, TRUE, es[1]), relay_num, es[2])

\* interactive_mode, command 'q': all relays off, then device.close().
simple_quit(m, e) ==
    [m |-> [simple_send_command(m, COMMANDS("all_off"), TRUE, e).m EXCEPT !.isOpen = FALSE],
     ret |-> "None"]

\* main with arguments, r1 being what the first control_relay gave: with
\* --duration the relay is switched off again after the sleep.
simple_main_duration(r1, relay_num, duration, e2) ==
    IF r1.ret = "True" /\ duration
    THEN control_relay(Log(r1.m, SleepEv(1000)), relay_num, FALSE, TRUE, e2).m
    ELSE r1.m

\* f is what find_relay gave; the handle is closed at the end.
simple_main_found(f, relay_num, on, duration, es) ==
    IF f.ret = "None" THEN [m |-> f.m, ret |-> "None"]
    ELSE [m |-> [simple_main_duration(control_relay(f.m, relay_num, on, TRUE, es[1]),
                                      relay_num, duration, es[2])
                 EXCEPT !.isOpen = FALSE],
          ret |-> "None"]

simple_main(m, relay_num, on, duration, o, es) ==
    simple_main_found(find_relay(m, o), relay_num, on, duration, es)

(***************************************************************************)
(* mac_relay_serial: module-level functions; every control_relay opens a   *)
(* port of its own (device, isOpen).                                       *)
(***************************************************************************)
\* A table whose off-frame of relay 2 carries the checksum of relay 1.
MAC_COMMANDS_miskeyed(key) ==
    CASE key = "relay1_on" -> <<160, 1, 1, 162>>
      [] key = "relay1_off" -> <<160, 1, 0, 161>>
      [] key = "relay2_on" -> <<160, 2, 1, 163>>
      [] key = "relay2_off" -> <<160, 2, 0, 161>>

MAC_COMMANDS(key) ==
    CASE key = "relay1_on" -> <<160, 1, 1, 162>>
      [] key = "relay1_off" -> <<160, 1, 0, 161>>
      [] key = "relay2_on" -> <<160, 2, 1, 163>>
      [] key = "relay2_off" -> <<160, 2, 0, 162>>

MacCommandKeys == {"relay1_on", "relay1_off", "relay2_on", "relay2_off"}

\* ser.write(command), w being what it meets: [m, ret]
mac_write(m, command, w, acts) ==
    IF w = "raise" THEN [m |-> Log(m, WriteEv(command, FALSE)), ret |-> "False"]
    ELSE [m |-> SerialDeliver(Log(m, WriteEv(command, TRUE)), command, acts),
          ret |-> "True"]

\* ser.close() and `return True`; an exception before it leaves the port open.
mac_close(r) ==
    IF r.ret # "True" THEN r
    ELSE [m |-> [r.m EXCEPT !.isOpen = FALSE], ret |-> "True"]

\* A second write that always repeats the first frame.
mac_repeat_same(r1, relay_num, state, duration, e) ==
    IF r1.ret # "True" \/ ~duration THEN r1
    ELSE mac_write(Log(r1.m, SleepEv(1000)),
                   MAC_COMMANDS(KeyName(cmd_key(relay_num, state))), e.w2, e.acts)

\* `if duration:` r1 being what the first write gave: after the sleep the
\* frame of the opposite state is written.
mac_opposite(r1, relay_num, state, duration, e) ==
    IF r1.ret # "True" \/ ~duration THEN r1
    ELSE mac_write(Log(r1.m, SleepEv(1000)),
                   MAC_COMMANDS(KeyName(cmd_key(relay_num, ~state))), e.w2, e.acts)

\* The try block once the port is open: a key COMMANDS does not hold raises
\* KeyError.
mac_send(m, relay_num, state, duration, e) ==
    IF KeyName(cmd_key(relay_num, state)) \notin MacCommandKeys
    THEN [m |-> m, ret |-> "False"]
    ELSE mac_close(mac_opposite(mac_write(m, MAC_COMMANDS(KeyName(cmd_key(relay_num, state))),
                                          e.w1, e.acts),
                                relay_num, state, duration, e))

\* e = [found, opens, w1, w2, acts]; duration: given and not zero
mac_control_relay(m, relay_num, state, duration, e) ==
    IF ~e.found THEN [m |-> Log(m, EnumEv(FALSE)), ret |-> "False"]
    ELSE IF ~e.opens THEN [m |-> Log(m, EnumEv(TRUE)), ret |-> "False"]
    ELSE mac_send(Log([m EXCEPT !.device = "obj", !.isOpen = TRUE], EnumEv(TRUE)),
                  relay_num, state, duration, e)

(***************************************************************************)
(* State and actions.                                                      *)
(***************************************************************************)
Signals == {"SIGINT", "SIGTERM"}

Programs ==
    {"relay_controller_v2", "relay_unified", "relay_serial_test", "hid_relay",
     "serial_protocol", "relay_simple", "test_relay_v2",
     "mac_relay_serial"}

Cur == [device |-> device, isOpen |-> isOpen, connected |-> connected,
        relay_states |-> relay_states, dev |-> dev, inq |-> inq,
        lastCmd |-> lastCmd, trace |-> <<>>]

Snapshot == [device |-> device, isOpen |-> isOpen, connected |-> connected,
             relay_states |-> relay_states, dev |-> dev, inq |-> inq,
             lastCmd |-> lastCmd, ret |-> call.ret, resp |-> call.resp]

NoSnapshot == [device |-> "None", isOpen |-> FALSE, connected |-> FALSE,
               relay_states |-> <<FALSE, FALSE>>, dev |-> <<FALSE, FALSE>>, inq |-> <<>>,
               lastCmd |-> <<"none", "none">>, ret |-> "None", resp |-> FALSE]

NoCall == [op |-> "none", ch |-> 0, st |-> FALSE, ret |-> "None", out |-> <<>>,
           trace |-> <<>>, resp |-> FALSE, again |-> FALSE, pre |-> NoSnapshot,
           first |-> NoSnapshot]

Idle == call.op = "none"

\* The call being made repeats the call that just returned.
Again(op, ch, st) == call.op = op /\ call.ch = ch /\ call.st = st /\ ~call.again

\* A call of op(ch, st) gave r = [m, ret] and out; resp: every I/O of the
\* call went through and the relay acted.  pre is the state the call started
\* in, with the result of the call before it; when the call repeats the one
\* before it (again), first is the state that one started in.
CommitOut(r, out, op, ch, st, resp) ==
    /\ device' = r.m.device
    /\ isOpen' = r.m.isOpen
    /\ connected' = r.m.connected
    /\ relay_states' = r.m.relay_states
    /\ dev' = r.m.dev
    /\ inq' = r.m.inq
    /\ lastCmd' = r.m.lastCmd
    /\ call' = [op |-> op, ch |-> ch, st |-> st, ret |-> r.ret, out |-> out,
                trace |-> r.m.trace, resp |-> resp, again |-> ~Idle, pre |-> Snapshot,
                first |-> IF Idle THEN NoSnapshot ELSE call.pre]
    /\ UNCHANGED prog

Commit(r, op, ch, st, resp) == CommitOut(r, <<>>, op, ch, st, resp)

\* A result [m, ret, out] committed with its out.
CommitWithOut(r, op, ch, st, resp) == CommitOut(r, r.out, op, ch, st, resp)

\* What get_relay_states gave, [m, states]: the tuple is the value returned.
CommitStates(g, op, ch, st, resp) ==
    CommitOut([m |-> g.m, ret |-> "tuple"], g.states, op, ch, st, resp)

\* What the codec gave, [raised, frame]: the machine is untouched.
CommitBuilt(b, op, ch, st, resp) ==
    CommitOut([m |-> Cur, ret |-> IF b.raised THEN "raise" ELSE "bytes"], b.frame,
              op, ch, st, resp)

\* The state after construction.  relay_unified holds a hid.device() on darwin
\* and None elsewhere (_init_device); the other programs start with no port
\* or handle.
Init ==
    /\ prog \in Programs
    /\ device \in (IF prog = "relay_unified" THEN {"obj", "None"} ELSE {"None"})
    /\ isOpen = FALSE
    /\ connected = FALSE
    /\ relay_states = <<FALSE, FALSE>>
    /\ dev \in [1..2 -> BOOLEAN]
    /\ inq = <<>>
    /\ lastCmd = <<"none", "none">>
    /\ call = NoCall

\* The caller takes the result of the call that returned; after a signal
\* the process has exited and nothing follows.
Return ==
    /\ ~Idle
    /\ call.op # "signal"
    /\ call' = NoCall
    /\ UNCHANGED <<prog, device, isOpen, connected, relay_states, dev, inq, lastCmd>>

(* relay_controller_v2 *)

\* What one set_relay can meet: after a failed write nothing else is drawn,
\* and a controller that is not connected or whose port is closed does no I/O.
SetRelayEnv ==
    IF connected /\ isOpen
    THEN [q1 : QueryOutcomes, w : {"ok"}, acts : BOOLEAN, q2 : QueryOutcomes]
         \cup [q1 : QueryOutcomes, w : {"short", "raise"}, acts : {TRUE}, q2 : {"silent"}]
    ELSE {[q1 |-> "answered", w |-> "ok", acts |-> TRUE, q2 |-> "answered"]}

Responsive(e) == e.q1 = "answered" /\ e.w = "ok" /\ e.acts /\ e.q2 = "answered"

ConnectEnv ==
    [found : {TRUE}, opens : {TRUE}, q : QueryOutcomes]
    \cup {[found |-> TRUE, opens |-> FALSE, q |-> "silent"],
          [found |-> FALSE, opens |-> FALSE, q |-> "silent"]}

V2Connect ==
    /\ prog = "relay_controller_v2"
    /\ Idle
    /\ \E e \in ConnectEnv :
          Commit(connect(Cur, e), "connect", 0, FALSE, e.q = "answered")

V2GetRelayStates ==
    /\ prog = "relay_controller_v2"
    /\ Idle
    /\ \E q \in QueryOutcomes :
          CommitStates(get_relay_states(Cur, q), "get_relay_states", 0, FALSE,
                       q = "answered")

V2SetRelay ==
    /\ prog = "relay_controller_v2"
    /\ \E n \in ChanArgs, s \in BOOLEAN, e \in SetRelayEnv :
          /\ Idle \/ Again("set_relay", n, s)
          /\ Commit(set_relay(Cur, n, s, e), "set_relay", n, s, Responsive(e))

V2SetAllRelays ==
    /\ prog = "relay_controller_v2"
    /\ Idle
    /\ \E s \in BOOLEAN, e1 \in SetRelayEnv, e2 \in SetRelayEnv :
          Commit(set_all_relays(Cur, s, <<e1, e2>>), "set_all_relays", 0, s,
                    Responsive(e1) /\ Responsive(e2))

V2Cleanup ==
    /\ prog = "relay_controller_v2"
    /\ Idle \/ Again("cleanup", 0, FALSE)
    /\ \E e1 \in SetRelayEnv, e2 \in SetRelayEnv :
          Commit(cleanup(Cur, <<e1, e2>>), "cleanup", 0, FALSE,
                    Responsive(e1) /\ Responsive(e2))

(* relay_unified *)

AttemptSeqs(fails, n) ==
    UNION {{f \o <<"ok">> : f \in [1..k -> fails]} : k \in 0..(n - 1)}
    \cup [1..n -> fails]

UnifiedEnv ==
    IF connected /\ device # "None"
    THEN [outs : AttemptSeqs({"wraise", "rraise"}, max_retries), ans : BOOLEAN]
    ELSE {[outs |-> <<"ok">>, ans |-> TRUE]}

UnifiedResponsive(e) == e.outs = <<"ok">> /\ e.ans

UnifiedOpen ==
    /\ prog = "relay_unified"
    /\ Idle
    /\ \E o \in {"ok", "notfound", "strfail"} :
          Commit(unified_open(Cur, o), "open", 0, FALSE, o = "ok")

UnifiedClose ==
    /\ prog = "relay_unified"
    /\ Idle
    /\ Commit([m |-> unified_close(Cur), ret |-> "None"], "close", 0, FALSE, TRUE)

UnifiedOpenChannel ==
    /\ prog = "relay_unified"
    /\ Idle
    /\ \E n \in ChanArgs, e \in UnifiedEnv :
          Commit(open_channel(Cur, n, e), "open_channel", n, TRUE, UnifiedResponsive(e))

UnifiedCloseChannel ==
    /\ prog = "relay_unified"
    /\ Idle
    /\ \E n \in ChanArgs, e \in UnifiedEnv :
          Commit(close_channel(Cur, n, e), "close_channel", n, FALSE, UnifiedResponsive(e))

UnifiedOpenAll ==
    /\ prog = "relay_unified"
    /\ Idle
    /\ \E e \in UnifiedEnv :
          Commit(open_all_channels(Cur, e), "open_all_channels", 0, TRUE, UnifiedResponsive(e))

UnifiedCloseAll ==
    /\ prog = "relay_unified"
    /\ Idle
    /\ \E e \in UnifiedEnv :
          Commit(close_all_channels(Cur, e), "close_all_channels", 0, FALSE, UnifiedResponsive(e))

UnifiedGetStatus ==
    /\ prog = "relay_unified"
    /\ Idle
    /\ \E e \in UnifiedEnv, rd \in {"ok", "raise"} :
          CommitWithOut(unified_get_status(Cur, e, rd), "get_status", 0, FALSE,
                        UnifiedResponsive(e) /\ rd = "ok")

UnifiedCleanup ==
    /\ prog = "relay_unified"
    /\ Idle \/ Again("cleanup", 0, FALSE)
    /\ \E e \in UnifiedEnv :
          Commit(unified_cleanup(Cur, e), "cleanup", 0, FALSE, UnifiedResponsive(e))

\* What the cleanups after the handler meet, should they do any I/O.
UnifiedExitEnv == {[outs |-> <<"ok">>, ans |-> TRUE]}

\* A signal arrives while open_channel(n) is in flight, or before its first
\* write (k = 0, ~mid): the handler runs, and the process exits.
UnifiedSignal ==
    /\ prog = "relay_unified"
    /\ Idle
    /\ connected
    /\ \E signum \in Signals, n \in Channels, k \in 0..(max_retries - 1), mid \in BOOLEAN,
          e \in UnifiedEnv, x \in UnifiedExitEnv :
          Commit(unified_exit(unified_signal_handler(
                                  unified_interrupted(Cur, Pad(HID_COMMANDS("OPEN_ONE", n)),
                                                      k, mid),
                                  signum, e),
                              x),
                 "signal", n, TRUE, UnifiedResponsive(e))

(* relay_serial_test *)

SerialConnectEnv ==
    {[found |-> TRUE, opens |-> TRUE], [found |-> TRUE, opens |-> FALSE],
     [found |-> FALSE, opens |-> FALSE]}

SerialEnv ==
    [c : IF connected THEN {[found |-> TRUE, opens |-> TRUE]} ELSE SerialConnectEnv,
     outs : AttemptSeqs({"raise"}, retries), acts : BOOLEAN]

SerialResponsive(e) == e.c.found /\ e.c.opens /\ e.outs = <<"ok">> /\ e.acts

SerialConnect ==
    /\ prog = "relay_serial_test"
    /\ Idle
    /\ \E c \in SerialConnectEnv :
          Commit(serial_connect(Cur, c), "connect", 0, FALSE, c.found /\ c.opens)

SerialOpenRelay ==
    /\ prog = "relay_serial_test"
    /\ \E n \in ChanArgs, e \in SerialEnv :
          /\ Idle \/ Again("open_relay", n, TRUE)
          /\ Commit(open_relay(Cur, n, e), "open_relay", n, TRUE, SerialResponsive(e))

SerialCloseRelay ==
    /\ prog = "relay_serial_test"
    /\ \E n \in ChanArgs, e \in SerialEnv :
          /\ Idle \/ Again("close_relay", n, FALSE)
          /\ Commit(close_relay(Cur, n, e), "close_relay", n, FALSE, SerialResponsive(e))

SerialOpenAll ==
    /\ prog = "relay_serial_test"
    /\ Idle
    /\ \E e1 \in SerialEnv, e2 \in SerialEnv :
          Commit(open_all_relays(Cur, <<e1, e2>>), "open_all_relays", 0, TRUE,
                    SerialResponsive(e1) /\ SerialResponsive(e2))

SerialCloseAll ==
    /\ prog = "relay_serial_test"
    /\ Idle
    /\ \E e1 \in SerialEnv, e2 \in SerialEnv :
          Commit(close_all_relays(Cur, <<e1, e2>>), "close_all_relays", 0, FALSE,
                    SerialResponsive(e1) /\ SerialResponsive(e2))

\* The retries argument of _send_command: 0 up to the default.
RetryArgs == 0..retries

SerialRetriesEnv(n) ==
    [c : IF connected THEN {[found |-> TRUE, opens |-> TRUE]} ELSE SerialConnectEnv,
     outs : AttemptSeqs({"raise"}, n), acts : BOOLEAN]

\* _send_command(bytes([0xA0, 0x01, 0x01, 0xA2]), retries=n); call.ch holds n.
SerialSendCommand ==
    /\ prog = "relay_serial_test"
    /\ Idle
    /\ \E n \in RetryArgs :
          \E e \in SerialRetriesEnv(n) :
             Commit(serial_send_command_retries(Cur, <<160, 1, 1, 162>>, n, e),
                    "_send_command", n, TRUE, SerialResponsive(e))

SerialStatusEnv ==
    [c : IF connected THEN {[found |-> TRUE, opens |-> TRUE]} ELSE SerialConnectEnv,
     w : {"ok", "raise"}, q : {"answered", "silent"}]

SerialGetStatus ==
    /\ prog = "relay_serial_test"
    /\ Idle
    /\ \E e \in SerialStatusEnv :
          CommitWithOut(serial_get_status(Cur, e), "get_status", 0, FALSE,
                        e.c.found /\ e.c.opens /\ e.w = "ok" /\ e.q = "answered")

SerialCleanup ==
    /\ prog = "relay_serial_test"
    /\ Idle \/ Again("cleanup", 0, FALSE)
    /\ \E e1 \in SerialEnv, e2 \in SerialEnv :
          Commit(serial_cleanup(Cur, <<e1, e2>>), "cleanup", 0, FALSE,
                    SerialResponsive(e1) /\ SerialResponsive(e2))

SerialExitEnv ==
    {[c |-> [found |-> TRUE, opens |-> TRUE], outs |-> <<"ok">>, acts |-> TRUE]}

\* A signal arrives while open_relay(n) is in flight, or before its first
\* write (k = 0, ~mid).
SerialSignal ==
    /\ prog = "relay_serial_test"
    /\ Idle
    /\ connected
    /\ \E signum \in Signals, n \in Channels, k \in 0..(retries - 1), mid \in BOOLEAN,
          e1 \in SerialEnv, e2 \in SerialEnv, x \in SerialExitEnv :
          Commit(serial_exit(serial_signal_handler(
                                 serial_interrupted(Cur, IF n = 1 THEN <<160, 1, 1, 162>>
                                                         ELSE <<160, 2, 1, 163>>,
                                                    k, mid),
                                 signum, <<e1, e2>>),
                             signum, <<x, x>>),
                 "signal", n, TRUE, SerialResponsive(e1) /\ SerialResponsive(e2))

(* test_relay_v2 *)

TesterEnv == [opens : BOOLEAN, w : {"ok", "raise"}, q : {"answered", "silent"}]

TesterConnect ==
    /\ prog = "test_relay_v2"
    /\ Idle
    /\ \E e \in TesterEnv :
          Commit(tester_connect(Cur, e), "connect", 0, FALSE,
                 e.opens /\ e.w = "ok" /\ e.q = "answered")

TesterGetRelayStates ==
    /\ prog = "test_relay_v2"
    /\ Idle
    /\ \E e \in TesterEnv :
          CommitStates(tester_get_relay_states(Cur, e), "get_relay_states", 0, FALSE,
                       e.w = "ok" /\ e.q = "answered")

(* hid_relay *)

HidEnv == [w : {"ok", "raise"}, ans : BOOLEAN]

HidConnect ==
    /\ prog = "hid_relay"
    /\ Idle
    /\ \E o \in {"ok", "raise"} :
          Commit(hid_connect(Cur, o), "connect", 0, FALSE, o = "ok")

HidSetRelay ==
    /\ prog = "hid_relay"
    /\ Idle
    /\ \E n \in ChanArgs, s \in BOOLEAN, e \in HidEnv :
          Commit(hid_set_relay(Cur, n, s, e), "set_relay", n, s, e.w = "ok")

HidSetAllRelays ==
    /\ prog = "hid_relay"
    /\ Idle
    /\ \E s \in BOOLEAN, e \in HidEnv :
          Commit(hid_set_all_relays(Cur, s, e), "set_all_relays", 0, s, e.w = "ok")

HidClose ==
    /\ prog = "hid_relay"
    /\ Idle
    /\ \E e \in HidEnv :
          Commit(hid_close(Cur, e), "close", 0, FALSE, e.w = "ok")

(* relay_simple *)

SimpleEnv == [o : {"ok", "raise"}, w : {"ok", "raise"}]

SimpleFindRelay ==
    /\ prog = "relay_simple"
    /\ Idle
    /\ \E o \in {"ok", "raise"} :
          Commit(find_relay(Cur, o), "find_relay", 0, FALSE, o = "ok")

SimpleControlRelay ==
    /\ prog = "relay_simple"
    /\ Idle
    /\ \E n \in ChanArgs, s \in BOOLEAN, passed \in BOOLEAN, e \in SimpleEnv :
          Commit(control_relay(Cur, n, s, passed, e), "control_relay", n, s,
                 e.o = "ok" /\ e.w = "ok")

\* send_command(COMMANDS['all_on']) and send_command(COMMANDS['all_off'])
SimpleSendAll ==
    /\ prog = "relay_simple"
    /\ Idle
    /\ \E s \in BOOLEAN, passed \in BOOLEAN, e \in SimpleEnv :
          Commit(simple_send_command(Cur, COMMANDS(IF s THEN "all_on" ELSE "all_off"),
                                     passed, e),
                 "send_command", 0, s, e.o = "ok" /\ e.w = "ok")

\* interactive_mode runs while it holds the handle find_relay gave it.
SimpleToggle ==
    /\ prog = "relay_simple"
    /\ Idle
    /\ device = "obj"
    /\ \E n \in Channels, e1 \in SimpleEnv, e2 \in SimpleEnv :
          Commit(simple_toggle(Cur, n, <<e1, e2>>), "toggle", n, TRUE,
                 e1.w = "ok" /\ e2.w = "ok")

SimpleQuit ==
    /\ prog = "relay_simple"
    /\ Idle
    /\ device = "obj"
    /\ \E e \in SimpleEnv :
          Commit(simple_quit(Cur, e), "quit", 0, FALSE, e.w = "ok")

\* main(relay, action, --duration): argparse admits relay 1 or 2 only.
SimpleMain ==
    /\ prog = "relay_simple"
    /\ Idle
    /\ \E n \in Channels, on \in BOOLEAN, duration \in BOOLEAN, o \in {"ok", "raise"},
          e1 \in SimpleEnv, e2 \in SimpleEnv :
          Commit(simple_main(Cur, n, on, duration, o, <<e1, e2>>), "main", n, on,
                 o = "ok" /\ e1.w = "ok" /\ e2.w = "ok")

(* mac_relay_serial *)

MacEnv ==
    [found : {TRUE}, opens : {TRUE}, w1 : {"ok"}, w2 : {"ok", "raise"}, acts : BOOLEAN]
    \cup {[found |-> TRUE, opens |-> TRUE, w1 |-> "raise", w2 |-> "ok", acts |-> TRUE],
          [found |-> TRUE, opens |-> FALSE, w1 |-> "ok", w2 |-> "ok", acts |-> TRUE],
          [found |-> FALSE, opens |-> FALSE, w1 |-> "ok", w2 |-> "ok", acts |-> TRUE]}

MacControlRelay ==
    /\ prog = "mac_relay_serial"
    /\ Idle
    /\ \E n \in ChanArgs, s \in BOOLEAN, duration \in BOOLEAN, e \in MacEnv :
          Commit(mac_control_relay(Cur, n, s, duration, e), "control_relay", n, s,
                 e.found /\ e.opens /\ e.w1 = "ok" /\ e.w2 = "ok" /\ e.acts)

(* the locators, applied to every enumeration *)

\* What a locator returned: the port, as out, or None.
CommitPort(ports, port) ==
    CommitOut([m |-> Log(Cur, ComportsEv(ports)),
               ret |-> IF port = 0 THEN "None" ELSE "str"],
              IF port = 0 THEN <<>> ELSE <<port>>, "find_port", 0, FALSE, port # 0)

ProtocolFindRelayPort ==
    /\ prog = "serial_protocol"
    /\ Idle
    /\ \E ports \in PortLists : CommitPort(ports, find_relay_port(ports))

MacFindCh340Device ==
    /\ prog = "mac_relay_serial"
    /\ Idle
    /\ \E ports \in PortLists : CommitPort(ports, find_ch340_device(ports))

\* connect() calls find_device while the controller is not connected.
SerialFindDevice ==
    /\ prog = "relay_serial_test"
    /\ Idle
    /\ ~connected
    /\ \E ports \in PortLists : CommitPort(ports, find_device(ports))

(* serial_protocol: the codec applied to every argument *)

ProtocolBuildCommand ==
    /\ prog = "serial_protocol"
    /\ Idle
    /\ \E n \in ChanArgs, s \in BOOLEAN :
          CommitBuilt(build_command(n, s), "build_command", n, s, TRUE)

Next ==
    \/ Return
    \/ V2Connect
    \/ V2GetRelayStates
    \/ V2SetRelay
    \/ V2SetAllRelays
    \/ V2Cleanup
    \/ UnifiedOpen
    \/ UnifiedClose
    \/ UnifiedOpenChannel
    \/ UnifiedCloseChannel
    \/ UnifiedOpenAll
    \/ UnifiedCloseAll
    \/ UnifiedGetStatus
    \/ UnifiedCleanup
    \/ UnifiedSignal
    \/ SerialConnect
    \/ SerialOpenRelay
    \/ SerialCloseRelay
    \/ SerialOpenAll
    \/ SerialCloseAll
    \/ SerialSendCommand
    \/ SerialGetStatus
    \/ SerialCleanup
    \/ SerialSignal
    \/ TesterConnect
    \/ TesterGetRelayStates
    \/ HidConnect
    \/ HidSetRelay
    \/ HidSetAllRelays
    \/ HidClose
    \/ SimpleFindRelay
    \/ SimpleControlRelay
    \/ SimpleSendAll
    \/ SimpleToggle
    \/ SimpleQuit
    \/ SimpleMain
    \/ MacControlRelay
    \/ ProtocolFindRelayPort
    \/ MacFindCh340Device
    \/ SerialFindDevice
    \/ ProtocolBuildCommand

Spec == Init /\ [][Next]_vars

(***************************************************************************)
(* Properties.  They speak about the call that just returned: call.trace   *)
(* is what it did on the transport, call.pre the state it started in.      *)
(***************************************************************************)
IsCommandWrite(ev) == ev.k = "write" /\ ev.frame # <<QUERY_CMD>>

RECURSIVE Keep(_, _)
\* The events of tr whose kind is in kinds, queries of the status left out.
Keep(tr, kinds) ==
    IF tr = <<>> THEN <<>>
    ELSE IF Head(tr).k \in kinds /\ (Head(tr).k # "write" \/ IsCommandWrite(Head(tr)))
         THEN <<Head(tr)>> \o Keep(Tail(tr), kinds)
         ELSE Keep(Tail(tr), kinds)

CommandWrites(tr) == Keep(tr, {"write"})
Rets(tr) == Keep(tr, {"ret"})
NoWrite(tr) == \A i \in 1..Len(tr) : tr[i].k # "write"

\* The controller as the call left it equals the controller as the call found it.
StateAsBefore ==
    /\ device = call.pre.device
    /\ isOpen = call.pre.isOpen
    /\ connected = call.pre.connected
    /\ relay_states = call.pre.relay_states
    /\ dev = call.pre.dev
    /\ inq = call.pre.inq
    /\ lastCmd = call.pre.lastCmd

\* frame switches channel c off: a serial frame for c with operation 0, or
\* an HID report 0xFD for c or for every channel.
IsOffCommand(frame, c) ==
    IF prog = "relay_unified"
    THEN Len(frame) >= 3 /\ frame[2] = 253 /\ frame[3] \in {0, c}
    ELSE frame = <<START_FLAG, c, STATE_OFF, (START_FLAG + c + STATE_OFF) % 256>>

\* C1: set_relay of relay_controller_v2 returns True only if, after the
\* command was written, a status query was answered and the answer reports
\* the requested state for the requested channel.
C1_SuccessOnlyAfterAnsweredReadBack ==
    (prog = "relay_controller_v2" /\ call.op = "set_relay" /\ call.ret = "True")
    => \E i \in 1..Len(call.trace), j \in 1..Len(call.trace) :
          /\ i < j
          /\ IsCommandWrite(call.trace[i])
          /\ call.trace[i].ok
          /\ call.trace[j].k = "read"
          /\ call.trace[j].ok
          /\ parse_status(call.trace[j].data)[call.ch] = call.st

\* C2: cleanup() on a connected controller with an open port issues an
\* off-command for channel 1 and for channel 2, whatever the cache holds and
\* whether or not the command for channel 1 fails.
C2_CleanupCommandsEveryChannelOff ==
    (prog \in {"relay_controller_v2", "relay_serial_test"} /\ call.op = "cleanup"
        /\ call.pre.connected /\ call.pre.isOpen)
    => \A c \in Channels :
          \E i \in 1..Len(call.trace) :
             call.trace[i].k = "write" /\ IsOffCommand(call.trace[i].frame, c)

\* C3: when a run of relay_unified ends through cleanup() and nothing fails
\* during the cleanup, no channel is left with "on" as the last command the
\* device received.
C3_NoChannelLeftOnAfterCleanup ==
    (prog = "relay_unified" /\ call.op = "cleanup" /\ call.resp)
    => \A c \in Channels : lastCmd[c] # "on"

\* C4: a set-channel call on a connected controller whose every write fails
\* makes exactly 3 write attempts with the same delay between one attempt and
\* the next, and then reports failure.
C4_ThreeAttemptsThenFailure ==
    (/\ prog \in {"relay_controller_v2", "relay_unified", "relay_serial_test"}
     /\ call.op \in {"set_relay", "open_channel", "close_channel", "open_relay", "close_relay"}
     /\ call.ch \in Channels
     /\ call.pre.connected /\ call.pre.isOpen
     /\ \A i \in 1..Len(call.trace) : call.trace[i].k = "write" => ~call.trace[i].ok)
    => LET steps == Keep(call.trace, {"write", "sleep"})
       IN /\ Len(CommandWrites(call.trace)) = 3
          /\ Len(steps) = 5
          /\ \A i \in {1, 3, 5} : steps[i].k = "write"
          /\ \A i \in {2, 4} : steps[i].k = "sleep" /\ steps[i].ms = steps[2].ms
          /\ call.ret = "False"

\* C5: after cleanup() on a connected controller the controller is not
\* connected and the transport is closed; a second cleanup() right after it
\* writes nothing and leaves the state as it was.
C5_CleanupIdempotent ==
    (prog \in {"relay_controller_v2", "relay_unified"} /\ call.op = "cleanup")
    => /\ (~call.again /\ call.pre.connected /\ call.pre.isOpen)
             => (~connected /\ ~isOpen)
       /\ (call.again /\ call.first.connected /\ call.first.isOpen)
             => (NoWrite(call.trace) /\ StateAsBefore)

\* C6: cleanup() on a controller that is not connected writes nothing,
\* closes nothing, raises nothing and leaves the controller as it was, not
\* connected.
C6_CleanupWhenDisconnectedIsNoOp ==
    (prog \in {"relay_controller_v2", "relay_unified", "relay_serial_test"}
        /\ call.op = "cleanup" /\ ~call.pre.connected)
    => /\ call.trace = <<>>
       /\ call.ret = "None"
       /\ StateAsBefore
       /\ ~connected

\* cleanup() returned on a controller that was not connected although its
\* port was open (a connect whose first status query went unanswered).
C6_Witness ==
    /\ call.op = "cleanup"
    /\ ~call.pre.connected
    /\ call.pre.isOpen
    /\ isOpen

\* C7: for a channel in {1, 2}, build_command gives exactly the 4 bytes
\* 0xA0, channel, operation (On 1, Off 0), (0xA0 + channel + operation) & 0xFF;
\* (1, On) gives A0 01 01 A2 and (2, Off) gives A0 02 00 A2.
C7_BuildCommandFrame ==
    (prog = "serial_protocol" /\ call.op = "build_command" /\ call.ch \in Channels)
    => LET operation == IF call.st THEN 1 ELSE 0
       IN /\ call.ret = "bytes"
          /\ call.out = <<160, call.ch, operation, (160 + call.ch + operation) % 256>>
          /\ (call.ch = 1 /\ call.st) => call.out = <<160, 1, 1, 162>>
          /\ (call.ch = 2 /\ ~call.st) => call.out = <<160, 2, 0, 162>>

\* build_command(1, On) and build_command(2, Off) returned their frames.
C7_Witness ==
    /\ prog = "serial_protocol"
    /\ call.op = "build_command"
    /\ \/ call.ch = 1 /\ call.st /\ call.out = <<160, 1, 1, 162>>
       \/ call.ch = 2 /\ ~call.st /\ call.out = <<160, 2, 0, 162>>

\* C8: a call that addresses a channel outside {1, 2} is refused on either
\* transport: it fails or raises, builds no frame and writes nothing.
C8_InvalidChannelRefused ==
    (/\ call.op \in {"build_command", "set_relay", "open_channel", "close_channel",
                     "open_relay", "close_relay"}
     /\ call.ch \notin Channels)
    => /\ call.ret \in {"False", "raise"}
       /\ call.out = <<>>
       /\ NoWrite(call.trace)

\* C9: on a connected controller with a responsive device, a set-channel
\* call made twice in a row with the same arguments gives the second time
\* the result and the state the first call gave.
C9_SetChannelIdempotent ==
    (/\ prog \in {"relay_controller_v2", "relay_serial_test"}
     /\ call.op \in {"set_relay", "open_relay", "close_relay"}
     /\ call.again
     /\ call.first.connected /\ call.first.isOpen
     /\ call.pre.resp /\ call.resp)
    => /\ call.ret = call.pre.ret
       /\ StateAsBefore

\* The second of two set-channel calls returned True, the first having
\* changed the relay.
C9_Witness ==
    /\ prog \in {"relay_controller_v2", "relay_serial_test"}
    /\ call.op \in {"set_relay", "open_relay", "close_relay"}
    /\ call.again
    /\ call.first.connected /\ call.first.isOpen
    /\ call.pre.resp /\ call.resp
    /\ call.ch \in Channels
    /\ call.first.dev[call.ch] # call.st
    /\ dev[call.ch] = call.st
    /\ call.ret = "True"

\* C10: set_all applies set-channel to channel 1 and then to channel 2 with
\* the requested state, commands nothing for channel 2 once channel 1
\* failed, and returns True exactly when both calls returned True.
C10_SetAllInOrderStopsAtFailure ==
    (/\ prog \in {"relay_controller_v2", "relay_serial_test"}
     /\ call.op \in {"set_all_relays", "open_all_relays", "close_all_relays"})
    => LET rets == Rets(call.trace)
       IN /\ Len(rets) <= 2
          /\ \A i \in 1..Len(rets) : rets[i].ch = i
          /\ Len(rets) = 2 => rets[1].ok
          /\ \A i \in 1..Len(call.trace) :
                IsCommandWrite(call.trace[i])
                => /\ call.trace[i].frame[2] = 1 + Len(Rets(SubSeq(call.trace, 1, i)))
                   /\ call.trace[i].frame[3] = IF call.st THEN STATE_ON ELSE STATE_OFF
          /\ call.ret = "True" <=> (Len(rets) = 2 /\ rets[2].ok)
          /\ call.ret \in {"True", "False"}

\* set_all returned False after the command for channel 1 was written and
\* the call for channel 1 failed.
C10_Witness ==
    /\ prog \in {"relay_controller_v2", "relay_serial_test"}
    /\ call.op \in {"set_all_relays", "open_all_relays", "close_all_relays"}
    /\ call.pre.connected /\ call.pre.isOpen
    /\ CommandWrites(call.trace) # <<>>
    /\ Len(Rets(call.trace)) = 1
    /\ call.ret = "False"

\* set_all_relays(On) of relay_controller_v2 where set_relay(1) returned True
\* on a read-back that reported channel 1 On, and set_relay(2) returned False.
PartialSetAll ==
    /\ prog = "relay_controller_v2"
    /\ call.op = "set_all_relays"
    /\ call.st
    /\ LET rets == Rets(call.trace)
       IN Len(rets) >= 2 /\ rets[1].ok /\ ~rets[2].ok
    /\ \E i \in 1..Len(call.trace) :
          /\ call.trace[i].k = "read"
          /\ call.trace[i].ok
          /\ parse_status(call.trace[i].data)[1]
          /\ Rets(SubSeq(call.trace, 1, i)) = <<>>

C12_NoOperationRaises ==
    (prog \in {"relay_controller_v2", "hid_relay"} /\ ~Idle) => call.ret # "raise"

\* C13: once a transport failure has left the controller not connected (it
\* holds a device object and connected is False), a channel command made
\* without a connect() in between does not succeed and opens no connection.
C13_CommandNeedsExplicitReconnect ==
    (/\ prog \in {"relay_serial_test", "relay_unified"}
     /\ call.op \in {"open_relay", "close_relay", "open_all_relays", "close_all_relays",
                     "open_channel", "close_channel", "open_all_channels",
                     "close_all_channels"}
     /\ call.pre.device = "obj"
     /\ ~call.pre.connected)
    => /\ call.ret # "True"
       /\ ~connected
       /\ isOpen = call.pre.isOpen

\* The status out agrees with the command on every channel whose last
\* command frame the device followed.
AgreesWithCommands(out) ==
    \A c \in Channels :
       (lastCmd[c] # "none" /\ dev[c] = (lastCmd[c] = "on")) => out[c] = (lastCmd[c] = "on")

\* C14 on the serial transport through RelayProtocol: set_relay wrote the
\* frame build_command gave, the relay followed it and the status query
\* after it was answered; parse_status of the answer gives the state asked
\* for the channel.
C14_SerialAscii ==
    (/\ prog = "relay_controller_v2"
     /\ call.op = "set_relay"
     /\ call.ch \in Channels
     /\ call.pre.connected /\ call.pre.isOpen
     /\ call.resp)
    => \E i \in 1..Len(call.trace), j \in 1..Len(call.trace) :
          /\ i < j
          /\ call.trace[i] = WriteEv(build_command(call.ch, call.st).frame, TRUE)
          /\ call.trace[j].k = "read"
          /\ call.trace[j].ok
          /\ \A l \in (j + 1)..Len(call.trace) : call.trace[l].k # "read"
          /\ parse_status(call.trace[j].data)[call.ch] = call.st

\* C14 for get_status of relay_serial_test and of relay_unified: when the
\* device answers the status query, get_status returns the states, and they
\* agree with the commands.
C14_GetStatus ==
    (/\ prog \in {"relay_serial_test", "relay_unified"}
     /\ call.op = "get_status"
     /\ call.pre.connected /\ call.pre.isOpen
     /\ call.resp)
    => /\ call.ret = "dict"
       /\ AgreesWithCommands(call.out)

\* C14: for every valid channel and state, the command frame and the parse
\* of the status answer agree, on the serial transport and on the HID
\* transport.
C14_BuildThenParseAgree == C14_SerialAscii /\ C14_GetStatus

\* C15: every frame written to the HID device is 8 bytes long, starts with
\* the report ID 0x00 and, after the opcode (and, in the profile of
\* relay_unified, the channel byte), holds only zero padding.
C15_HidFrameFixedLength ==
    prog \in {"hid_relay", "relay_simple", "relay_unified"}
    => \A i \in 1..Len(call.trace) :
          call.trace[i].k = "write"
          => LET frame == call.trace[i].frame
             IN /\ Len(frame) = 8
                /\ frame[1] = 0
                /\ prog # "relay_unified" => frame[3] = 0
                /\ \A b \in 4..8 : frame[b] = 0

\* The opcode of the known table for the call that returned.
TableOpcode ==
    CASE call.op \in {"set_relay", "control_relay"} /\ call.ch = 1 /\ call.st -> 254
      [] call.op \in {"set_relay", "control_relay"} /\ call.ch = 1 /\ ~call.st -> 1
      [] call.op \in {"set_relay", "control_relay"} /\ call.ch = 2 /\ call.st -> 253
      [] call.op \in {"set_relay", "control_relay"} /\ call.ch = 2 /\ ~call.st -> 2
      [] call.op \in {"set_all_relays", "send_command"} /\ call.st -> 255
      [] call.op \in {"set_all_relays", "send_command"} /\ ~call.st -> 0
      [] OTHER -> 256

\* C16: the opcode HIDRelay and relay_simple write for a command is the one
\* of the known table (relay 1 on 0xFE, off 0x01; relay 2 on 0xFD, off 0x02;
\* all on 0xFF, all off 0x00); the six opcodes of COMMANDS are pairwise
\* distinct, and what HIDRelay writes is the entry of COMMANDS.
C16_OpcodeTable ==
    /\ Cardinality({COMMANDS(k)[2] : k \in CommandKeys}) = 6
    /\ (/\ prog \in {"hid_relay", "relay_simple"}
        /\ call.op \in {"set_relay", "control_relay", "set_all_relays", "send_command"})
       => \A i \in 1..Len(call.trace) :
             call.trace[i].k = "write"
             => /\ call.trace[i].frame[2] = TableOpcode
                /\ call.op \in {"set_relay", "control_relay"}
                      => call.trace[i].frame[2]
                           = COMMANDS(KeyName(cmd_key(call.ch, call.st)))[2]
                /\ call.op \in {"set_all_relays", "send_command"}
                      => call.trace[i].frame[2]
                           = COMMANDS(IF call.st THEN "all_on" ELSE "all_off")[2]

\* HIDRelay.set_relay(2, True) wrote its frame.
C16_Witness ==
    /\ prog = "hid_relay"
    /\ call.op = "set_relay"
    /\ call.ch = 2
    /\ call.st
    /\ \E i \in 1..Len(call.trace) :
          call.trace[i].k = "write" /\ call.trace[i].ok /\ call.trace[i].frame[2] = 253

\* C17: when the locator finds no matching endpoint, connect() and a command
\* made while not connected fail at once: the ports are listed a single
\* time, nothing is written, no retry delay is taken and no connection is
\* made.
C17_DeviceNotFoundNotRetried ==
    (/\ prog \in {"relay_controller_v2", "relay_serial_test"}
     /\ \E i \in 1..Len(call.trace) : call.trace[i].k = "enum" /\ ~call.trace[i].ok)
    => /\ Len(Keep(call.trace, {"enum"})) = 1
       /\ NoWrite(call.trace)
       /\ \A i \in 1..Len(call.trace) : call.trace[i].k # "sleep"
       /\ call.ret \in {"False", "None"}
       /\ connected = call.pre.connected
       /\ isOpen = call.pre.isOpen

\* A channel command of relay_serial_test made while not connected met no
\* endpoint.
C17_Witness ==
    /\ prog = "relay_serial_test"
    /\ call.op \in {"open_relay", "close_relay", "open_all_relays", "close_all_relays"}
    /\ ~call.pre.connected
    /\ \E i \in 1..Len(call.trace) : call.trace[i].k = "enum" /\ ~call.trace[i].ok
    /\ call.ret = "False"

\* C18: the cache of relay_controller_v2 changes only to values read back:
\* when a call leaves a channel's cached state different from what it was,
\* an answered status query of that call reported the new value for that
\* channel.
C18_CacheOnlyFromAnsweredQuery ==
    (prog = "relay_controller_v2" /\ ~Idle)
    => \A c \in Channels :
          relay_states[c] # call.pre.relay_states[c]
          => \E i \in 1..Len(call.trace) :
                /\ call.trace[i].k = "read"
                /\ call.trace[i].ok
                /\ parse_status(call.trace[i].data)[c] = relay_states[c]

\* C19: while relay_controller_v2 is not connected, get_relay_states reports
\* no channel as Off or On, and the cache holds neither value: a channel is
\* Unknown until it has been observed.
C19_UnknownWhileDisconnected ==
    (prog = "relay_controller_v2" /\ ~connected)
    => /\ \A c \in Channels : relay_states[c] \notin BOOLEAN
       /\ call.op = "get_relay_states"
          => \A c \in Channels : call.out[c] \notin BOOLEAN

\* The answered status reads of a trace.
AnsweredReads(tr) == {i \in 1..Len(tr) : tr[i].k = "read" /\ tr[i].ok}

\* C20: get_relay_states of relay_controller_v2 leaves the cache as it was
\* and returns it when the controller is not connected or the status query
\* fails; when the query is answered, the cache and the returned value are
\* both the states the device reported.
C20_QueryStateKeepsOrRefreshesCache ==
    (prog = "relay_controller_v2" /\ call.op = "get_relay_states")
    => /\ call.out = relay_states
       /\ IF AnsweredReads(call.trace) = {}
          THEN relay_states = call.pre.relay_states
          ELSE /\ call.pre.connected
               /\ relay_states = dev
               /\ \A i \in AnsweredReads(call.trace) :
                     relay_states = parse_status(call.trace[i].data)

\* A connected controller whose cache holds an On channel, and whose status
\* query got no answer.
C20_Witness ==
    /\ prog = "relay_controller_v2"
    /\ call.op = "get_relay_states"
    /\ call.pre.connected
    /\ AnsweredReads(call.trace) = {}
    /\ \E c \in Channels : call.pre.relay_states[c]
    /\ call.out = call.pre.relay_states

\* The last event of a trace is a read that met the timeout with no data.
EndsInEmptyRead(tr) ==
    /\ tr # <<>>
    /\ tr[Len(tr)].k = "read"
    /\ tr[Len(tr)].ok
    /\ tr[Len(tr)].data = <<>>

\* The query byte went out and no read followed: nothing was waiting.
QueryUnanswered(tr) ==
    /\ \E i \in 1..Len(tr) : tr[i].k = "write" /\ tr[i].ok /\ tr[i].frame = <<QUERY_CMD>>
    /\ \A i \in 1..Len(tr) : tr[i].k # "read"

\* C21: a get_status whose read gets no data within the timeout returns None
\* without raising and leaves the controller connected (relay_unified and
\* relay_serial_test).
C21_NoDataIsNotFatal ==
    /\ (/\ prog = "relay_unified"
        /\ call.op = "get_status"
        /\ call.pre.connected
        /\ EndsInEmptyRead(call.trace))
       => (call.ret = "None" /\ connected)
    /\ (/\ prog = "relay_serial_test"
        /\ call.op = "get_status"
        /\ QueryUnanswered(call.trace))
       => (call.ret = "None" /\ connected)

\* C22: a controller that is not connected holds no open transport handle
\* (relay_controller_v2 and relay_serial_test): whatever connect, command,
\* failure and cleanup calls came before, the serial port the controller
\* holds is closed whenever the controller is Disconnected.
C22_NoOpenHandleWhileDisconnected ==
    (prog \in {"relay_controller_v2", "relay_serial_test"} /\ ~connected)
    => ~isOpen

\* The off-command of a cleanup failed: in relay_unified every one of the
\* max_retries attempts raised (on its write or on its read); in
\* relay_controller_v2 the write of an off-frame failed.
FailedAttempts(tr) ==
    {i \in 1..Len(tr) : tr[i].k \in {"write", "read"} /\ ~tr[i].ok}

OffCommandFailed ==
    IF prog = "relay_unified"
    THEN Cardinality(FailedAttempts(call.trace)) = max_retries
    ELSE \E i \in 1..Len(call.trace) :
            IsCommandWrite(call.trace[i]) /\ ~call.trace[i].ok

\* C23: a cleanup of a connected controller whose off-command failed still
\* closes the transport: afterwards the handle is closed and the controller
\* is Disconnected (relay_unified and relay_controller_v2).
C23_CleanupClosesAfterFailedOff ==
    (/\ prog \in {"relay_unified", "relay_controller_v2"}
     /\ call.op = "cleanup"
     /\ call.pre.connected
     /\ OffCommandFailed)
    => (~isOpen /\ ~connected)

\* Where the signal arrived and where the process left the handler.
SignalAt(tr) == CHOOSE i \in 1..Len(tr) : tr[i].k = "signal"
ExitAt(tr) == CHOOSE i \in 1..Len(tr) : tr[i].k = "exit"

IsOffFrame(frame) == \E c \in Channels : IsOffCommand(frame, c)

\* C24: a SIGINT or SIGTERM delivered to a connected controller, also in the
\* middle of a command's retry loop, runs cleanup before the process exits
\* (relay_unified and relay_serial_test): the handler writes an off-command,
\* every frame written after the signal is an off-command of the handler, and
\* the finally and atexit cleanups that follow write nothing to the handle.
C24_SignalCleansUpOnce ==
    (/\ prog \in {"relay_unified", "relay_serial_test"}
     /\ call.op = "signal"
     /\ call.pre.connected)
    => /\ \E i \in (SignalAt(call.trace) + 1)..(ExitAt(call.trace) - 1) :
             call.trace[i].k = "write" /\ IsOffFrame(call.trace[i].frame)
       /\ \A i \in (SignalAt(call.trace) + 1)..Len(call.trace) :
             call.trace[i].k = "write"
             => (i < ExitAt(call.trace) /\ IsOffFrame(call.trace[i].frame))

\* The controller has commanded the board before: it was connected once.
WasConnected == call.pre.lastCmd # <<"none", "none">>

\* C25: a controller that was connected and is Disconnected again (after
\* close, cleanup or a transport error) can be reconnected by its caller:
\* open() of relay_unified, and connect() of relay_serial_test, called with
\* the device present, returns True and leaves the controller Connected.
C25_ReconnectSucceeds ==
    (/\ \/ prog = "relay_unified" /\ call.op = "open"
        \/ prog = "relay_serial_test" /\ call.op = "connect"
     /\ call.resp
     /\ ~call.pre.connected
     /\ WasConnected)
    => (call.ret = "True" /\ connected)

\* An answered status query of a trace: the query byte went out, and a later
\* read brought the answer.
AnsweredQueries(tr) ==
    {i \in AnsweredReads(tr) :
        \E j \in 1..(i - 1) : tr[j].k = "write" /\ tr[j].ok /\ tr[j].frame = <<QUERY_CMD>>}

\* C26: connect() of relay_controller_v2 and of test_relay_v2 returns True
\* only if the call sent a status query that the device answered, and then
\* the cache holds the states of that answer; a connect() of a Disconnected
\* controller whose query is not answered returns False and leaves the
\* controller Disconnected.
C26_ConnectNeedsAnsweredQuery ==
    (prog \in {"relay_controller_v2", "test_relay_v2"} /\ call.op = "connect")
    => /\ call.ret = "True"
          => /\ AnsweredQueries(call.trace) # {}
             /\ \A i \in AnsweredQueries(call.trace) :
                   relay_states = parse_status(call.trace[i].data)
       /\ (~call.pre.connected /\ AnsweredQueries(call.trace) = {})
          => (call.ret = "False" /\ ~connected)

\* The call is one run of _send_command: a single-command method of
\* relay_serial_test or relay_unified.
IsSendCommand ==
    \/ prog = "relay_serial_test" /\ call.op \in {"_send_command", "open_relay", "close_relay"}
    \/ prog = "relay_unified"
       /\ call.op \in {"open_channel", "close_channel", "open_all_channels",
                       "close_all_channels"}

\* The attempts the loop of the call may make.
MaxAttempts ==
    IF prog = "relay_unified" THEN max_retries
    ELSE IF call.op = "_send_command" THEN call.ch ELSE retries

Writes(tr) == {i \in 1..Len(tr) : tr[i].k = "write"}

\* The attempt that wrote at i went through: nothing of it raised.
SucceededAt(tr, i) ==
    /\ i \in Writes(tr)
    /\ tr[i].ok
    /\ prog = "relay_unified" => (i < Len(tr) /\ tr[i + 1].k = "read" /\ tr[i + 1].ok)

\* C27: _send_command ends with True or False after at most MaxAttempts
\* writes, whatever the retries argument (0 included); when it returns True
\* the attempt that succeeded is the last one made, and every write before
\* it belongs to an attempt that failed.
C27_RetryLoopEndsWithBoolean ==
    IsSendCommand
    => /\ call.ret \in {"True", "False"}
       /\ Cardinality(Writes(call.trace)) <= MaxAttempts
       /\ call.ret = "True"
          => /\ Cardinality(Writes(call.trace)) = Cardinality(FailedAttempts(call.trace)) + 1
             /\ \E i \in Writes(call.trace) :
                   /\ SucceededAt(call.trace, i)
                   /\ \A j \in Writes(call.trace) \cup FailedAttempts(call.trace) : j <= i

\* C28: a failure of some attempts is not surfaced when a later attempt goes
\* through: a _send_command of a connected controller in which an attempt
\* succeeded returns True and leaves it Connected, and it leaves the
\* controller Disconnected only when MaxAttempts attempts were made and
\* every one of them failed.
C28_TransientFailuresRetried ==
    (IsSendCommand /\ call.pre.connected)
    => /\ (\E i \in Writes(call.trace) : SucceededAt(call.trace, i))
          => (call.ret = "True" /\ connected)
       /\ ~connected
          => /\ Cardinality(FailedAttempts(call.trace)) = MaxAttempts
             /\ \A i \in Writes(call.trace) : ~SucceededAt(call.trace, i)

\* A command went through on a later attempt after an earlier one failed.
C28_Witness ==
    /\ IsSendCommand
    /\ call.pre.connected
    /\ FailedAttempts(call.trace) # {}
    /\ \E i \in Writes(call.trace) : SucceededAt(call.trace, i)
    /\ call.ret = "True"
    /\ connected

\* The on-frame of relay n, and later its off-frame, were written.
OnThenOffWritten(tr, n) ==
    \E i \in Writes(tr), j \in Writes(tr) :
       /\ i < j
       /\ tr[i].ok /\ tr[i].frame = COMMANDS(KeyName(cmd_key(n, TRUE)))
       /\ tr[j].ok /\ tr[j].frame = COMMANDS(KeyName(cmd_key(n, FALSE)))

\* C29: in relay_simple the handle passed to control_relay and send_command
\* stays usable for the commands that follow, all writes meeting no error:
\* the toggle of interactive mode and the --duration path of main write the
\* on-frame and then the off-frame, so the channel ends Off, and the quit of
\* interactive mode writes the all-off frame.
C29_PassedHandleStaysUsable ==
    (prog = "relay_simple" /\ call.resp)
    => /\ (call.op = "toggle" /\ call.pre.isOpen)
          => (OnThenOffWritten(call.trace, call.ch) /\ lastCmd[call.ch] = "off")
       /\ (/\ call.op = "main"
           /\ call.st
           /\ \E i \in 1..Len(call.trace) : call.trace[i].k = "sleep")
          => (OnThenOffWritten(call.trace, call.ch) /\ lastCmd[call.ch] = "off")
       /\ (call.op = "quit" /\ call.pre.device = "obj")
          => \E i \in Writes(call.trace) :
                call.trace[i].ok /\ call.trace[i].frame = COMMANDS("all_off")

\* C30: get_status of a connected relay_unified controller, on a device that
\* answers every written report with one input report and has none queued
\* from before, returns the map decoded from that report (bit 0 relay 1,
\* bit 1 relay 2), which is the state of the board, and leaves the
\* controller Connected.
C30_UnifiedGetStatusDecodesAnswer ==
    (/\ prog = "relay_unified"
     /\ call.op = "get_status"
     /\ call.pre.connected
     /\ call.pre.inq = <<>>
     /\ call.resp)
    => /\ call.ret = "dict"
       /\ call.out = [i \in 1..2 |-> Bit(StatusByte(dev), i - 1)]
       /\ connected

\* The hint a locator looks for in a port.
MatchesHint(p) ==
    CASE prog = "serial_protocol" -> p.ch340
      [] prog = "mac_relay_serial" -> p.vidpid
      [] OTHER -> p.vendor

\* The enumeration a locator call was given.
Enumerated(tr) == tr[1].data

\* C31: a serial locator returns the first enumerated port that matches its
\* bridge hint whenever one exists, whatever its position; when none matches,
\* the first port whose description mentions USB; and None when no port
\* matches either rule.
C31_LocatorFirstMatchThenUsb ==
    call.op = "find_port"
    => LET ports == Enumerated(call.trace)
           hinted == {i \in 1..Len(ports) : MatchesHint(ports[i])}
           usb == {i \in 1..Len(ports) : ports[i].usb}
       IN IF hinted # {} THEN call.out = <<FirstOf(hinted)>>
          ELSE IF usb # {} THEN call.out = <<FirstOf(usb)>>
          ELSE call.out = <<>> /\ call.ret = "None"

\* The frame the codec builds for channel n and state st.
CodecFrame(n, st) == build_command(n, st).frame

\* C32: the hard-coded serial frames are those of the codec: every frame
\* that control_relay of mac_relay_serial takes from COMMANDS, and every
\* frame open_relay and close_relay of relay_serial_test send, equals
\* build_command(channel, state) byte for byte (the second frame of a
\* control_relay with a duration being that of the opposite state); and the
\* codec gives distinct frames for distinct (channel, state) pairs.
C32_HardCodedFramesMatchCodec ==
    /\ (/\ \/ prog = "mac_relay_serial" /\ call.op = "control_relay"
           \/ prog = "relay_serial_test" /\ call.op \in {"open_relay", "close_relay"}
        /\ call.ch \in Channels)
       => \A i \in Writes(call.trace) :
             call.trace[i].frame =
                CodecFrame(call.ch,
                           IF \E j \in 1..(i - 1) : call.trace[j].k = "sleep" /\ call.trace[j].ms = 1000
                           THEN ~call.st ELSE call.st)
    /\ \A n1 \in Channels, n2 \in Channels, s1 \in BOOLEAN, s2 \in BOOLEAN :
          CodecFrame(n1, s1) = CodecFrame(n2, s2) => (n1 = n2 /\ s1 = s2)

\* control_relay of mac_relay_serial switched relay 2 off with the frame of
\* the table.
C32_Witness ==
    /\ prog = "mac_relay_serial"
    /\ call.op = "control_relay"
    /\ call.ch = 2
    /\ ~call.st
    /\ \E i \in Writes(call.trace) : call.trace[i].ok /\ call.trace[i].frame = <<160, 2, 0, 162>>

\* The writes of a trace, in order.
WriteSeq(tr) == Keep(tr, {"write"})

\* control_relay of mac_relay_serial took its duration branch: it slept
\* after the first frame.
MacDurationCall ==
    /\ prog = "mac_relay_serial"
    /\ call.op = "control_relay"
    /\ \E i \in 1..Len(call.trace) : call.trace[i].k = "sleep"

RejectedUpFront ==
    \/ /\ prog = "relay_controller_v2"
       /\ call.op = "set_relay"
       /\ (~call.pre.connected \/ call.ch \notin {1, 2})
    \/ /\ prog = "relay_controller_v2"
       /\ call.op = "set_all_relays"
       /\ ~call.pre.connected
    \/ /\ prog = "relay_unified"
       /\ call.op \in {"open_channel", "close_channel", "open_all_channels",
                       "close_all_channels"}
       /\ (~call.pre.connected \/ call.pre.device = "None")

\* C33: a command refused up front returns False and changes nothing: no
\* byte is written, no status query is sent, nothing is read, and the cache,
\* the connection state and the board are as before.
C33_RejectedCommandChangesNothing ==
    RejectedUpFront
    => /\ call.ret = "False"
       /\ \A i \in 1..Len(call.trace) : call.trace[i].k \notin {"write", "read", "sleep"}
       /\ StateAsBefore

\* set_relay with a relay number outside {1, 2} on a connected controller
\* whose port is open.
C33_Witness ==
    /\ prog = "relay_controller_v2"
    /\ call.op = "set_relay"
    /\ call.ch \notin {1, 2}
    /\ call.pre.connected
    /\ call.pre.isOpen
    /\ call.ret = "False"
    /\ StateAsBefore

====
